---- MODULE Spec2Model ----
(***************************************************************************)
(* HeartBeat attendance tracker: the ledger (attendance_sheet), the        *)
(* Settings singleton and the request handlers of app/main.py with the     *)
(* AttendanceService operations they call.                                 *)
(*                                                                         *)
(* Dates are day numbers 0..MaxDate; date d falls on weekday               *)
(* (FirstWeekday + d) % 7 with Python's numbering (0 = Monday).            *)
(* daily_working_hours is a float in the code; here it is a number of      *)
(* 1/HoursScale hours, so that int(hours * 60) truncates as in Python.     *)
(* A ledger row is keyed <<device_id, date>> (UNIQUE (device_id, date)).   *)
(***************************************************************************)
EXTENDS Integers, Sequences, FiniteSets, TLC

\* ---------------------------------------------------------------- bounds
MaxDate == 1
FirstWeekday == 2
MaxRecorded == 3
MaxRequests == 4
MaxCalcHours == 8
MaxCalcCategory == 12
NumRequests == 3
HoursScale == 40
MonthLength == 2
NumMonths == 3
MaxFormatMinutes == 130

\* ------------------------------------------------------ program constants
WORKDAY == 0
WEEKEND == 1
HALF_LEAVE == 10
FULL_LEAVE == 11
HOLIDAY == 90
DefaultHours == 8

None == 0 - 1
NULL == "NULL"

Dates == 0..MaxDate
Devices == {"DEFAULT", "AGENT"}
Categories == {WORKDAY, WEEKEND, HALF_LEAVE, FULL_LEAVE, HOLIDAY}
HolidayCategories == {HOLIDAY, FULL_LEAVE, HALF_LEAVE}

weekday(d) == (FirstWeekday + d) % 7

\* Python int(x) of the rational a / b (b > 0): truncation toward zero.
PyInt(a, b) == IF a >= 0 THEN a \div b ELSE 0 - ((0 - a) \div b)

\* datetime.strptime(s, "%Y-%m-%d").date(); None stands for a missing or
\* malformed string (ValueError).
strptime(s) == IF s \in Dates THEN s ELSE None

\* ----------------------------------------------------------------- inputs
InitHours == DefaultHours * HoursScale
OddHours == (DefaultHours - 1) * HoursScale + (HoursScale \div 2) + 1
HoursInputs == {InitHours, OddHours, 0}
FormHoursInputs == {OddHours, None}
DateInputs == Dates \cup {None}
RangeInputs == (Dates \X Dates) \cup {<<None, 0>>, <<0, None>>}
MonFri == {0, 1, 2, 3, 4}
SatWed == {5, 6, 0, 1, 2}
WorkingDaysInputs == {MonFri, SatWed}
DescriptionInputs == {"", "X"}
TypeInputs == Categories

\* Settings.working_days as stored: the default CSV of day names, or the
\* JSON list written by json.dumps(working_days).
DefaultWorkingDays == [fmt |-> "csv", names |-> {"Sat", "Sun", "Mon", "Tue", "Wed"}, days |-> {}]
json_dumps(days) == [fmt |-> "json", names |-> {}, days |-> days]

VARIABLES settings, rows, today, hbRun, nreq, calcIn, calcOut, pc, snap, report, denied,
          fmtIn, fmtOut, bulk

vars == <<settings, rows, today, hbRun, nreq, calcIn, calcOut, pc, snap, report, denied,
          fmtIn, fmtOut, bulk>>
seqVars == <<calcIn, calcOut, pc, snap, report, denied, fmtIn, fmtOut, bulk>>

\* History of the heartbeats: hit says that the last request served was a
\* heartbeat, for row <<dev, date>>; n counts the heartbeats served back to back
\* for that row since the one that created it (0: no such run).
NoRun == [hit |-> FALSE, dev |-> "DEFAULT", date |-> 0, n |-> 0]

\* ------------------------------------------------------- pure operations
calculate_time_required_floor_bug(category, hours) ==
  LET daily == PyInt(hours * 60, HoursScale) IN
  IF category = HALF_LEAVE THEN (daily + 1) \div 2
  ELSE IF category \in {WEEKEND, FULL_LEAVE, HOLIDAY} THEN 0 ELSE daily

calculate_time_required(category, hours) ==
  LET daily_required_minutes == PyInt(hours * 60, HoursScale) IN
  IF category = WORKDAY THEN daily_required_minutes
  ELSE IF category = WEEKEND THEN 0
  ELSE IF category = HALF_LEAVE THEN daily_required_minutes \div 2
  ELSE IF category = FULL_LEAVE THEN 0
  ELSE IF category = HOLIDAY THEN 0
  ELSE daily_required_minutes

SettingsConstraints_dates_only(s) == s.start_date <= s.end_date

\* CHECK constraints of the two tables. models.py still names the Settings
\* column daily_required_minutes; the handlers read and write
\* daily_working_hours (added by init_db.py), which the positivity constraint
\* is taken to cover.
SettingsConstraints(s) ==
  /\ s.start_date <= s.end_date
  /\ s.daily_working_hours > 0

RowConstraints(r) ==
  /\ r.category \in Categories
  /\ r.time_required >= 0
  /\ r.time_recorded >= 0

\* The working-day sets the different readers derive from the stored string.
day_mapping(name) ==
  CASE name = "Mon" -> 0 [] name = "Tue" -> 1 [] name = "Wed" -> 2
    [] name = "Thu" -> 3 [] name = "Fri" -> 4 [] name = "Sat" -> 5
    [] name = "Sun" -> 6

working_days_set(wd) ==
  IF wd.fmt = "json" THEN wd.days ELSE {day_mapping(n) : n \in wd.names}

delete_holiday_working_days(wd) ==
  IF wd.fmt = "json" THEN wd.days ELSE {0, 1, 2, 3, 4}

\* initialize_attendance_records: int(x) of the comma-separated pieces, else
\* the day names; a piece that is neither (every piece of a JSON list, such
\* as "[0" or " 4]") counts as 0, Monday.
initialize_attendance_records_working_days(wd) ==
  IF wd.fmt = "json" THEN {0} ELSE {day_mapping(n) : n \in wd.names}

NewRow(category, recorded, required, description) ==
  [category |-> category, time_recorded |-> recorded,
   time_required |-> required, description |-> description]

RowsOn(rs, d) == {k \in DOMAIN rs : k[2] = d}

Restrict(rs, keys) == [k \in keys |-> rs[k]]

\* Concurrent heartbeat requests: what a request read before it writes.
Requests == 1..NumRequests
NoSnapshot == [device_id |-> "DEFAULT", date |-> 0, found |-> FALSE, time_recorded |-> 0]
NotCalculated == [done |-> FALSE, value |-> 0]

\* f"{n:02d}": the two digits of n < 100.
two_digits(n) == <<n \div 10, n % 10>>
no_digits == <<None, None>>

\* A formatted balance: the sign, the f-string that produced the text and the
\* values it printed (None, no_digits: not printed). The literal "0d 00:00"
\* reads as the first template with zeros.
Text(sign, template, days, hours, mins) ==
  [sign |-> sign, template |-> template, days |-> days, hours |-> hours, mins |-> mins]

\* No balance has been formatted.
NothingToFormat == [minutes |-> 0, daily_required_minutes |-> 0]
NotFormatted == [done |-> FALSE, text |-> Text("", "", None, no_digits, no_digits)]

\* No settings form is being served in steps.
NoBulk == [pc |-> "idle", status |-> 0, failed |-> FALSE, hours |-> 0,
           to_add |-> {}, to_update |-> {}, after |-> [k \in {} |-> NULL]]

\* The dashboard has not been rendered.
NotRendered == [done |-> FALSE, balance |-> 0, monthly_summaries |-> <<>>]

\* ------------------------------------------------------------------ Init
\* init_default_settings commits the default Settings row and then calls
\* initialize_attendance_records, which raises NameError at its first missing
\* row (database.py never imports AttendanceService at module level): the
\* ledger is empty when the server first serves requests.
EmptyLedger == [k \in {} |-> NULL]

init_default_settings ==
  [device_id |-> "DEFAULT", start_date |-> 0, end_date |-> MaxDate,
   working_days |-> DefaultWorkingDays, daily_working_hours |-> InitHours]

Init ==
  /\ settings = init_default_settings
  /\ rows = EmptyLedger
  /\ today = 0
  /\ hbRun = NoRun
  /\ nreq = 0
  /\ calcIn = [category |-> WORKDAY, hours |-> InitHours]
  /\ calcOut = NotCalculated
  /\ pc = [p \in Requests |-> "idle"]
  /\ snap = [p \in Requests |-> NoSnapshot]
  /\ report = NotRendered
  /\ denied = 0
  /\ fmtIn = NothingToFormat
  /\ fmtOut = NotFormatted
  /\ bulk = NoBulk

\* ------------------------------------------------------ service operations
\* AttendanceService.record_heartbeat at date today = datetime.now().date().
svc_record_heartbeat_no_first_minute(rs, s, device_id, date) ==
  LET k == <<device_id, date>> IN
  IF k \in DOMAIN rs
  THEN [rs EXCEPT ![k].time_recorded = @ + 1]
  ELSE rs @@ (k :> NewRow(WORKDAY, 0,
                          calculate_time_required(WORKDAY, s.daily_working_hours), NULL))

svc_record_heartbeat_resets_category(rs, s, device_id, date) ==
  LET k == <<device_id, date>> IN
  IF k \in DOMAIN rs
  THEN [rs EXCEPT ![k].time_recorded = @ + 1, ![k].category = WORKDAY,
                  ![k].time_required = calculate_time_required(WORKDAY, s.daily_working_hours)]
  ELSE rs @@ (k :> NewRow(WORKDAY, 1,
                          calculate_time_required(WORKDAY, s.daily_working_hours), NULL))

svc_record_heartbeat_by_weekday(rs, s, device_id, date) ==
  LET k == <<device_id, date>>
      category == IF weekday(date) \in working_days_set(s.working_days)
                  THEN WORKDAY ELSE WEEKEND
  IN IF k \in DOMAIN rs
     THEN [rs EXCEPT ![k].time_recorded = @ + 1]
     ELSE rs @@ (k :> NewRow(category, 1,
                             calculate_time_required(category, s.daily_working_hours), NULL))

svc_record_heartbeat(rs, s, device_id, date) ==
  LET k == <<device_id, date>> IN
  IF k \in DOMAIN rs
  THEN [rs EXCEPT ![k].time_recorded = @ + 1]
  ELSE rs @@ (k :> NewRow(WORKDAY, 1,
                          calculate_time_required(WORKDAY, s.daily_working_hours), NULL))

\* AttendanceService.update_settings: None keeps the stored date.
svc_update_settings(s, start_date, end_date, working_days, daily_working_hours) ==
  [s EXCEPT !.start_date = IF start_date # None THEN start_date ELSE @,
            !.end_date = IF end_date # None THEN end_date ELSE @,
            !.working_days = working_days,
            !.daily_working_hours = daily_working_hours]

update_time_required_for_all(rs, device_id, daily_working_hours) ==
  [k \in DOMAIN rs |->
     IF k[1] = device_id
     THEN [rs[k] EXCEPT !.time_required = calculate_time_required(rs[k].category, daily_working_hours)]
     ELSE rs[k]]

PurgeOrphans_keeps_all(rs, s) == rs

\* "Clean up any existing records with invalid device_id": every row whose
\* device_id is not the Settings device is deleted and the deletion committed.
PurgeOrphans(rs, s) == Restrict(rs, {k \in DOMAIN rs : k[1] = s.device_id})

final_description(category, description) ==
  IF description = ""
  THEN IF category = FULL_LEAVE THEN "Leave (full day)"
       ELSE IF category = HALF_LEAVE THEN "Leave (half day)"
       ELSE description
  ELSE description

\* "if category > existing.category or (category == 90 and existing.category != 90)"
Overrides_whenever_different(category, existing_category) ==
  category # existing_category

Overrides(category, existing_category) ==
  \/ category > existing_category
  \/ (category = HOLIDAY /\ existing_category # HOLIDAY)

skips_leave_on_holidays_only(category, is_weekend, is_holiday) ==
  is_holiday /\ category \in {HALF_LEAVE, FULL_LEAVE}

\* "if (is_weekend or is_holiday) and category in [10, 11]: continue"
skips_leave(category, is_weekend, is_holiday) ==
  (is_weekend \/ is_holiday) /\ category \in {HALF_LEAVE, FULL_LEAVE}

add_holiday_range_halves_stored(rs, s, start_date, end_date, category, description) ==
  LET purged == PurgeOrphans(rs, s)
      working_days == working_days_set(s.working_days)
      is_weekend(d) == weekday(d) \notin working_days
      is_holiday(d) == \E k \in RowsOn(purged, d) : purged[k].category = HOLIDAY
      touched == {d \in start_date..end_date :
                    ~skips_leave(category, is_weekend(d), is_holiday(d))}
      created == {<<s.device_id, d>> : d \in {t \in touched : RowsOn(purged, t) = {}}}
      update(r) ==
        IF Overrides(category, r.category) \/ category = r.category
        THEN [r EXCEPT !.category = category,
                       !.description = final_description(category, description),
                       !.time_required =
                          IF category \in {HOLIDAY, FULL_LEAVE} THEN 0
                          ELSE IF category = HALF_LEAVE THEN @ \div 2
                          ELSE @]
        ELSE r
  IN [k \in DOMAIN purged \cup created |->
        IF k \in created
        THEN NewRow(category, 0, calculate_time_required(category, s.daily_working_hours),
                    final_description(category, description))
        ELSE IF k[2] \in touched THEN update(purged[k]) ELSE purged[k]]

add_holiday_range(rs, s, start_date, end_date, category, description) ==
  LET purged == PurgeOrphans(rs, s)
      device_id == s.device_id
      working_days == working_days_set(s.working_days)
      is_weekend(d) == weekday(d) \notin working_days
      is_holiday(d) == \E k \in RowsOn(purged, d) : purged[k].category = HOLIDAY
      skip(d) == skips_leave(category, is_weekend(d), is_holiday(d))
      touched == {d \in start_date..end_date : ~skip(d)}
      created == {<<device_id, d>> : d \in {t \in touched : RowsOn(purged, t) = {}}}
      update(r) ==
        IF Overrides(category, r.category)
        THEN [r EXCEPT !.category = category,
                       !.description = final_description(category, description),
                       !.time_required =
                          IF category = HOLIDAY THEN 0
                          ELSE IF category = FULL_LEAVE THEN 0
                          ELSE IF category = HALF_LEAVE
                               THEN calculate_time_required(category, s.daily_working_hours)
                          ELSE @]
        ELSE r
  IN [k \in DOMAIN purged \cup created |->
        IF k \in created
        THEN NewRow(category, 0, calculate_time_required(category, s.daily_working_hours),
                    final_description(category, description))
        ELSE IF k[2] \in touched THEN update(purged[k]) ELSE purged[k]]

svc_add_holiday(rs, s, date, description) ==
  LET purged == PurgeOrphans(rs, s)
      created == IF RowsOn(purged, date) = {} THEN {<<s.device_id, date>>} ELSE {}
  IN [k \in DOMAIN purged \cup created |->
        IF k \in created THEN NewRow(HOLIDAY, 0, 0, description)
        ELSE IF k[2] = date
             THEN [purged[k] EXCEPT !.category = HOLIDAY, !.description = description,
                                    !.time_required = 0]
             ELSE purged[k]]

\* The rows delete_holiday's query can return (.first() of an unordered query).
HolidayRowsOn_any_category(rs, d) == RowsOn(rs, d)

HolidayRowsOn(rs, d) == {k \in RowsOn(rs, d) : rs[k].category \in HolidayCategories}

svc_delete_holiday(rs, s, k) ==
  LET is_working_day == weekday(k[2]) \in delete_holiday_working_days(s.working_days)
      new_category == IF is_working_day THEN WORKDAY ELSE WEEKEND
  IN [rs EXCEPT ![k] = [@ EXCEPT
        !.category = new_category,
        !.description = IF is_working_day THEN NULL ELSE "Weekend",
        !.time_required = calculate_time_required(new_category, s.daily_working_hours)]]

\* The attendance part of POST /settings, run when both dates parsed.
settings_form_apply_recategorise(rs, s, start_date_obj, end_date_obj, working_days, hours) ==
  LET purged == PurgeOrphans(rs, s)
      missing == {d \in start_date_obj..end_date_obj : RowsOn(purged, d) = {}}
      records_to_add == {<<s.device_id, d>> : d \in missing}
      category(d) == IF weekday(d) \notin working_days THEN WEEKEND ELSE WORKDAY
  IN [k \in DOMAIN purged \cup records_to_add |->
        IF k \in records_to_add
        THEN NewRow(category(k[2]), 0, calculate_time_required(category(k[2]), hours), NULL)
        ELSE IF k[2] \in start_date_obj..end_date_obj
             THEN [purged[k] EXCEPT !.category = category(k[2]),
                     !.time_required = calculate_time_required(category(k[2]), hours)]
             ELSE purged[k]]

settings_form_apply_all_workdays(rs, s, start_date_obj, end_date_obj, working_days, hours) ==
  LET purged == PurgeOrphans(rs, s)
      missing == {d \in start_date_obj..end_date_obj : RowsOn(purged, d) = {}}
      records_to_add == {<<s.device_id, d>> : d \in missing}
  IN [k \in DOMAIN purged \cup records_to_add |->
        IF k \in records_to_add
        THEN NewRow(WORKDAY, 0, calculate_time_required(WORKDAY, hours), NULL)
        ELSE IF k[2] \in start_date_obj..end_date_obj
             THEN [purged[k] EXCEPT !.time_required = calculate_time_required(purged[k].category, hours)]
             ELSE purged[k]]

settings_form_apply(rs, s, start_date_obj, end_date_obj, working_days, hours) ==
  LET purged == PurgeOrphans(rs, s)
      device_id == s.device_id
      missing == {d \in start_date_obj..end_date_obj : RowsOn(purged, d) = {}}
      records_to_add == {<<device_id, d>> : d \in missing}
      category(d) == IF weekday(d) \notin working_days THEN WEEKEND ELSE WORKDAY
  IN [k \in DOMAIN purged \cup records_to_add |->
        IF k \in records_to_add
        THEN NewRow(category(k[2]), 0, calculate_time_required(category(k[2]), hours), NULL)
        ELSE IF k[2] \in start_date_obj..end_date_obj
             THEN [purged[k] EXCEPT !.time_required = calculate_time_required(purged[k].category, hours)]
             ELSE purged[k]]

\* ---------------------------------------------------------------- actions
\* One more request is served; a behaviour serves at most MaxRequests.
Served ==
  /\ nreq < MaxRequests
  /\ nreq' = nreq + 1

\* POST /api/heartbeat -> AttendanceService.record_heartbeat
record_heartbeat(device_id) ==
  LET k == <<device_id, today>> IN
  /\ Served
  /\ k \in DOMAIN rows => rows[k].time_recorded < MaxRecorded
  /\ rows' = svc_record_heartbeat(rows, settings, device_id, today)
  /\ hbRun' = [hit |-> TRUE, dev |-> device_id, date |-> today,
               n |-> IF k \notin DOMAIN rows THEN 1
                     ELSE IF hbRun.n > 0 /\ hbRun.dev = device_id /\ hbRun.date = today
                          THEN hbRun.n + 1
                     ELSE 0]
  /\ UNCHANGED <<settings, today, seqVars>>

\* POST /api/settings: the response status with the Settings and ledger the
\* request leaves. 500: the commit of the Settings row violates a CHECK
\* constraint and nothing is stored.
api_update_settings_effect(s, rs, start_date, end_date, working_days, daily_working_hours) ==
  LET s1 == svc_update_settings(s, start_date, end_date, json_dumps(working_days),
                                daily_working_hours) IN
  IF ~SettingsConstraints(s1)
  THEN [status |-> 500, settings |-> s, rows |-> rs]
  ELSE [status |-> 200, settings |-> s1,
        rows |-> update_time_required_for_all(rs, s1.device_id, s1.daily_working_hours)]

api_update_settings(start_date, end_date, working_days, daily_working_hours) ==
  LET effect == api_update_settings_effect(settings, rows, start_date, end_date,
                                           working_days, daily_working_hours) IN
  /\ Served
  /\ hbRun' = NoRun
  /\ settings' = effect.settings
  /\ rows' = effect.rows
  /\ UNCHANGED <<today, seqVars>>

\* POST /settings: float(daily_working_hours), 8.0 when it does not parse.
form_hours(daily_working_hours) ==
  IF daily_working_hours = None THEN InitHours ELSE daily_working_hours

\* 500 when dates_changed evaluates json.loads on the stored CSV default
\* (both date comparisons False) or when the Settings commit violates a
\* CHECK constraint; otherwise the 303 redirect. The ledger is rewritten only
\* when both dates parsed.
update_settings_form_effect(s, rs, start_date, end_date, working_days, daily_working_hours) ==
  LET start_date_obj == strptime(start_date)
      end_date_obj == strptime(end_date)
      hours == form_hours(daily_working_hours)
      json_error == /\ s.start_date = start_date_obj
                    /\ s.end_date = end_date_obj
                    /\ s.working_days.fmt # "json"
      s1 == svc_update_settings(s, start_date_obj, end_date_obj,
                                json_dumps(working_days), hours)
  IN IF json_error \/ ~SettingsConstraints(s1)
     THEN [status |-> 500, settings |-> s, rows |-> rs]
     ELSE [status |-> 303, settings |-> s1,
           rows |-> IF start_date_obj # None /\ end_date_obj # None
                    THEN settings_form_apply(rs, s1, start_date_obj, end_date_obj,
                                             working_days, hours)
                    ELSE rs]

update_settings_form(start_date, end_date, working_days, daily_working_hours) ==
  LET effect == update_settings_form_effect(settings, rows, start_date, end_date,
                                            working_days, daily_working_hours) IN
  /\ Served
  /\ hbRun' = NoRun
  /\ settings' = effect.settings
  /\ rows' = effect.rows
  /\ UNCHANGED <<today, seqVars>>

\* POST /api/holidays
add_holiday(date, description) ==
  /\ rows' = svc_add_holiday(rows, settings, date, description)
  /\ Served
  /\ hbRun' = NoRun
  /\ UNCHANGED <<settings, today, seqVars>>

\* POST /holidays: the inputs the handler redirects on without calling
\* add_holiday_range.
add_holiday_form_rejected(type, start_date, end_date, description) ==
  \/ strptime(start_date) = None
  \/ strptime(end_date) = None
  \/ strptime(end_date) < strptime(start_date)
  \/ (type = HOLIDAY /\ description = "")

add_holiday_form(type, start_date, end_date, description) ==
  /\ rows' = IF add_holiday_form_rejected(type, start_date, end_date, description)
             THEN rows
             ELSE add_holiday_range(rows, settings, strptime(start_date),
                                    strptime(end_date), type, description)
  /\ Served
  /\ hbRun' = NoRun
  /\ UNCHANGED <<settings, today, seqVars>>

\* DELETE /api/holidays/{holiday_date}
delete_holiday_status(rs, holiday_date) ==
  IF strptime(holiday_date) = None THEN 400
  ELSE IF HolidayRowsOn(rs, strptime(holiday_date)) = {} THEN 404
  ELSE 200

delete_holiday(holiday_date) ==
  /\ Served
  /\ hbRun' = NoRun
  /\ IF delete_holiday_status(rows, holiday_date) = 200
     THEN \E k \in HolidayRowsOn(rows, strptime(holiday_date)) :
             rows' = svc_delete_holiday(rows, settings, k)
     ELSE UNCHANGED rows
  /\ UNCHANGED <<settings, today, seqVars>>

\* POST /holidays/{holiday_date}/delete: always the 303 redirect.
delete_holiday_form(holiday_date) ==
  /\ Served
  /\ hbRun' = NoRun
  /\ IF delete_holiday_status(rows, holiday_date) = 200
     THEN \E k \in HolidayRowsOn(rows, strptime(holiday_date)) :
             rows' = svc_delete_holiday(rows, settings, k)
     ELSE UNCHANGED rows
  /\ UNCHANGED <<settings, today, seqVars>>

\* datetime.now() moves to the next day.
Tick ==
  /\ today < MaxDate
  /\ today' = today + 1
  /\ UNCHANGED <<settings, rows, hbRun, nreq, seqVars>>

Next ==
  \/ \E device_id \in Devices : record_heartbeat(device_id)
  \/ \E s \in DateInputs, e \in DateInputs, h \in HoursInputs :
       api_update_settings(s, e, MonFri, h)
  \/ \E s \in DateInputs, e \in DateInputs, w \in WorkingDaysInputs, h \in FormHoursInputs :
       update_settings_form(s, e, w, h)
  \/ \E d \in Dates, x \in DescriptionInputs : add_holiday(d, x)
  \/ \E c \in TypeInputs, r \in RangeInputs, x \in DescriptionInputs :
       add_holiday_form(c, r[1], r[2], x)
  \/ \E d \in DateInputs : delete_holiday(d)
  \/ \E d \in DateInputs : delete_holiday_form(d)
  \/ Tick

Spec == Init /\ [][Next]_vars

\* ------------------------------------------- the token-protected endpoints
\* verify_token: the bearer token is compared with BEARER_TOKEN; a different
\* token raises 401 before the handler runs.
Tokens == {"your-secret-token", "wrong-token"}
expected_token == "your-secret-token"

verify_token_accepts_any(token) == 200

verify_token(token) == IF token # expected_token THEN 401 ELSE 200

\* The request is answered 401: denied counts the requests answered so.
Unauthorized ==
  /\ Served
  /\ denied' = denied + 1
  /\ hbRun' = NoRun
  /\ UNCHANGED <<settings, rows, today, calcIn, calcOut, pc, snap, report, fmtIn, fmtOut, bulk>>

\* An endpoint with Depends(verify_token): the handler runs only when the
\* dependency did not raise.
api(token, handler) ==
  IF verify_token(token) = 401 THEN Unauthorized ELSE handler

\* GET /api/settings and GET /api/holidays read and return.
api_read ==
  /\ Served
  /\ hbRun' = NoRun
  /\ UNCHANGED <<settings, rows, today, seqVars>>

\* A request to one of the six API endpoints carrying the given token.
ApiRequest(token) ==
  \/ \E device_id \in Devices : api(token, record_heartbeat(device_id))
  \/ \E s \in DateInputs, e \in DateInputs, h \in HoursInputs :
       api(token, api_update_settings(s, e, MonFri, h))
  \/ \E d \in Dates, x \in DescriptionInputs : api(token, add_holiday(d, x))
  \/ \E d \in DateInputs : api(token, delete_holiday(d))
  \/ api(token, api_read)

NextAuth ==
  \/ \E token \in Tokens : ApiRequest(token)
  \/ Tick

SpecAuth == Init /\ [][NextAuth]_vars

\* ------------------------------------------ calculate_time_required alone
CalcCategories == (0..MaxCalcCategory) \cup Categories
CalcHours == (0..MaxCalcHours) \cup {InitHours, OddHours}

InitCalc ==
  /\ settings = init_default_settings
  /\ rows = EmptyLedger
  /\ today = 0
  /\ hbRun = NoRun
  /\ nreq = 0
  /\ calcIn \in [category : CalcCategories, hours : CalcHours]
  /\ calcOut = NotCalculated
  /\ pc = [p \in Requests |-> "idle"]
  /\ snap = [p \in Requests |-> NoSnapshot]
  /\ report = NotRendered
  /\ denied = 0
  /\ fmtIn = NothingToFormat
  /\ fmtOut = NotFormatted
  /\ bulk = NoBulk

Calculate ==
  /\ ~calcOut.done
  /\ calcOut' = [done |-> TRUE,
                 value |-> calculate_time_required(calcIn.category, calcIn.hours)]
  /\ UNCHANGED <<settings, rows, today, hbRun, nreq, calcIn, pc, snap, report, denied,
               fmtIn, fmtOut, bulk>>

NextCalc == Calculate

SpecCalc == InitCalc /\ [][NextCalc]_vars

\* ---------------------------------- heartbeat requests served concurrently
\* record_heartbeat, lines 11-22: the request reads today's row of its device.
HeartbeatRead(p, device_id) ==
  /\ pc[p] = "idle"
  /\ pc' = [pc EXCEPT ![p] = "read"]
  /\ snap' = [snap EXCEPT ![p] =
        [device_id |-> device_id, date |-> today,
         found |-> <<device_id, today>> \in DOMAIN rows,
         time_recorded |-> IF <<device_id, today>> \in DOMAIN rows
                           THEN rows[<<device_id, today>>].time_recorded ELSE 0]]
  /\ UNCHANGED <<settings, rows, today, hbRun, nreq, calcIn, calcOut, report, denied,
               fmtIn, fmtOut, bulk>>

\* record_heartbeat, lines 24-38: the INSERT of a new row (IntegrityError on
\* UNIQUE (device_id, date) when another request inserted it meanwhile, the
\* request then fails with 500) or the UPDATE that stores the value the
\* request computed from what it read (StaleDataError and 500 when the row
\* was deleted meanwhile), and the commit.
HeartbeatCommit(p) ==
  LET k == <<snap[p].device_id, snap[p].date>> IN
  /\ pc[p] = "read"
  /\ IF ~snap[p].found
     THEN IF k \in DOMAIN rows
          THEN /\ pc' = [pc EXCEPT ![p] = "failed"]
               /\ UNCHANGED rows
          ELSE /\ pc' = [pc EXCEPT ![p] = "done"]
               /\ rows' = svc_record_heartbeat(rows, settings, snap[p].device_id, snap[p].date)
     ELSE IF k \notin DOMAIN rows
          THEN /\ pc' = [pc EXCEPT ![p] = "failed"]
               /\ UNCHANGED rows
          ELSE /\ pc' = [pc EXCEPT ![p] = "done"]
               /\ rows' = [rows EXCEPT ![k].time_recorded = snap[p].time_recorded + 1]
  /\ UNCHANGED <<settings, today, hbRun, nreq, calcIn, calcOut, snap, report, denied,
               fmtIn, fmtOut, bulk>>

NextConc ==
  \/ \E p \in Requests, device_id \in Devices : HeartbeatRead(p, device_id)
  \/ \E p \in Requests : HeartbeatCommit(p)

SpecConc == Init /\ [][NextConc]_vars

\* ------------------------------------------------------------- the reports
\* The calendar of the reports: NumMonths months of MonthLength days each,
\* dates 0 .. LastReportDate; date d lies in month d \div MonthLength.
LastReportDate == MonthLength * NumMonths - 1
ReportDates == 0..LastReportDate
first_of_month(d) == (d \div MonthLength) * MonthLength
last_of_month(d) == first_of_month(d) + MonthLength - 1

Min(a, b) == IF a <= b THEN a ELSE b

RECURSIVE sum_field(_, _, _)
sum_field(rs, keys, field) ==
  IF keys = {} THEN 0
  ELSE LET k == CHOOSE x \in keys : TRUE
       IN rs[k][field] + sum_field(rs, keys \ {k}, field)

\* The records a query without ORDER BY may return first for each date that
\* has rows: one choice per date.
FirstRecords(rs) ==
  LET dated == {k[2] : k \in DOMAIN rs} IN
  {f \in [dated -> DOMAIN rs] : \A d \in dated : f[d] \in RowsOn(rs, d)}

\* One day of a month's daily_data in get_monthly_summaries: a day after
\* today in the current month is a placeholder; otherwise the day's record
\* (the first the loop over the month's records meets), or, with no record,
\* nothing recorded and the requirement of the weekday.
daily_entry(rs, s, now, first, current_day) ==
  LET is_current_month == first_of_month(current_day) = first_of_month(now)
      is_future == current_day > now
      is_weekend == weekday(current_day) \notin working_days_set(s.working_days)
      has_record == RowsOn(rs, current_day) # {}
  IN IF is_current_month /\ is_future
     THEN [time_required |-> 0, time_recorded |-> 0, balance |-> 0,
           is_future |-> TRUE, counted |-> FALSE]
     ELSE LET time_required ==
                IF has_record THEN rs[first[current_day]].time_required
                ELSE IF is_weekend THEN 0
                ELSE calculate_time_required(WORKDAY, s.daily_working_hours)
              time_recorded ==
                IF has_record THEN rs[first[current_day]].time_recorded ELSE 0
          IN [time_required |-> time_required, time_recorded |-> time_recorded,
              balance |-> time_recorded - time_required,
              is_future |-> is_future, counted |-> TRUE]

RECURSIVE sum_days(_, _, _)
sum_days(daily_data, days, field) ==
  IF days = {} THEN 0
  ELSE LET d == CHOOSE x \in days : TRUE
       IN (IF daily_data[d].counted THEN daily_data[d][field] ELSE 0)
          + sum_days(daily_data, days \ {d}, field)

\* get_monthly_summaries(db, start_date, end_date, settings): one entry per
\* month from the month of start_date to the last month that starts on or
\* before end_date, indexed here by the first day of the month.
get_monthly_summaries(rs, start_date, end_date, s, now, first) ==
  LET months == {m \in ReportDates : /\ m = first_of_month(m)
                                     /\ first_of_month(start_date) <= m
                                     /\ m <= end_date}
      summary(current_month) ==
        IF current_month > first_of_month(now)
        THEN [recorded |-> 0, required |-> 0, balance |-> 0, is_future |-> TRUE,
              daily_data |-> <<>>]
        ELSE LET days == current_month..last_of_month(current_month)
                 daily_data == [d \in days |-> daily_entry(rs, s, now, first, d)]
                 total_required == sum_days(daily_data, days, "time_required")
                 total_recorded == sum_days(daily_data, days, "time_recorded")
             IN [recorded |-> total_recorded, required |-> total_required,
                 balance |-> total_recorded - total_required, is_future |-> FALSE,
                 daily_data |-> daily_data]
  IN [m \in months |-> summary(m)]
dashboard_through_end_date(rs, s, now, first) ==
  LET balance_records == {k \in DOMAIN rs : /\ k[1] = s.device_id
                                            /\ s.start_date <= k[2]
                                            /\ k[2] <= s.end_date}
  IN [done |-> TRUE,
      balance |-> sum_field(rs, balance_records, "time_recorded")
                  - sum_field(rs, balance_records, "time_required"),
      monthly_summaries |-> get_monthly_summaries(rs, s.start_date, s.end_date, s, now, first)]

\* GET /dashboard: the balance over the records of the Settings device dated
\* from start_date to min(end_date, today), and the monthly summaries up to
\* end_date.
dashboard(rs, s, now, first) ==
  LET start_date == s.start_date
      balance_end_date == Min(s.end_date, now)
      display_end_date == s.end_date
      balance_records == {k \in DOMAIN rs : /\ k[1] = s.device_id
                                            /\ start_date <= k[2]
                                            /\ k[2] <= balance_end_date}
      total_required == sum_field(rs, balance_records, "time_required")
      total_recorded == sum_field(rs, balance_records, "time_recorded")
  IN [done |-> TRUE,
      balance |-> total_recorded - total_required,
      monthly_summaries |-> get_monthly_summaries(rs, start_date, display_end_date, s, now, first)]

\* The ledgers and Settings the reports are rendered on: at most two rows,
\* each recorded by heartbeats under one of the two daily requirements, of any
\* device and date; three reporting periods; both stored forms of working days.
ReportRows ==
  {NewRow(WORKDAY, 3, calculate_time_required(WORKDAY, InitHours), NULL),
   NewRow(WORKDAY, 1, calculate_time_required(WORKDAY, OddHours), NULL)}

ReportLedgers ==
  LET keys == Devices \X ReportDates
      keysets == {{a, b} : a \in keys, b \in keys}
  IN {EmptyLedger} \cup UNION {[K -> ReportRows] : K \in keysets}

ReportPeriods ==
  {<<0, LastReportDate>>, <<1, LastReportDate - 1>>, <<MonthLength, 2 * MonthLength - 1>>}

ReportSettings ==
  {[init_default_settings EXCEPT !.start_date = p[1], !.end_date = p[2], !.working_days = w] :
      p \in ReportPeriods, w \in {DefaultWorkingDays, json_dumps(MonFri)}}

InitReport ==
  /\ settings \in ReportSettings
  /\ rows \in ReportLedgers
  /\ today \in ReportDates
  /\ hbRun = NoRun
  /\ nreq = 0
  /\ calcIn = [category |-> WORKDAY, hours |-> InitHours]
  /\ calcOut = NotCalculated
  /\ pc = [p \in Requests |-> "idle"]
  /\ snap = [p \in Requests |-> NoSnapshot]
  /\ report = NotRendered
  /\ denied = 0
  /\ fmtIn = NothingToFormat
  /\ fmtOut = NotFormatted
  /\ bulk = NoBulk

Dashboard ==
  /\ ~report.done
  /\ \E first \in FirstRecords(rows) : report' = dashboard(rows, settings, today, first)
  /\ UNCHANGED <<settings, rows, today, hbRun, nreq, calcIn, calcOut, pc, snap, denied,
               fmtIn, fmtOut, bulk>>

NextReport == Dashboard

SpecReport == InitReport /\ [][NextReport]_vars

\* ------------------------------------------------- format_balance_minutes
format_balance_minutes_24h(minutes, daily_required_minutes) ==
  IF daily_required_minutes = 0
  THEN Text("", "{sign}{days}d {hours:02d}:{mins:02d}", 0, two_digits(0), two_digits(0))
  ELSE LET sign == IF minutes < 0 THEN "-" ELSE ""
           abs_minutes == IF minutes < 0 THEN 0 - minutes ELSE minutes
           days == abs_minutes \div 1440
           remaining_minutes == abs_minutes % 1440
           hours == remaining_minutes \div 60
           mins == remaining_minutes % 60
       IN IF days > 0
          THEN IF hours > 0 \/ mins > 0
               THEN Text(sign, "{sign}{days}d {hours:02d}:{mins:02d}", days,
                         two_digits(hours), two_digits(mins))
               ELSE Text(sign, "{sign}{days}d", days, no_digits, no_digits)
          ELSE IF hours > 0
               THEN Text(sign, "{sign}{hours:02d}:{mins:02d}", None,
                         two_digits(hours), two_digits(mins))
               ELSE Text(sign, "{sign}{mins:02d}m", None, no_digits, two_digits(mins))

format_balance_minutes(minutes, daily_required_minutes) ==
  IF daily_required_minutes = 0
  THEN Text("", "{sign}{days}d {hours:02d}:{mins:02d}", 0, two_digits(0), two_digits(0))
  ELSE LET sign == IF minutes < 0 THEN "-" ELSE ""
           abs_minutes == IF minutes < 0 THEN 0 - minutes ELSE minutes
           days == abs_minutes \div daily_required_minutes
           remaining_minutes == abs_minutes % daily_required_minutes
           hours == remaining_minutes \div 60
           mins == remaining_minutes % 60
       IN IF days > 0
          THEN IF hours > 0 \/ mins > 0
               THEN Text(sign, "{sign}{days}d {hours:02d}:{mins:02d}", days,
                         two_digits(hours), two_digits(mins))
               ELSE Text(sign, "{sign}{days}d", days, no_digits, no_digits)
          ELSE IF hours > 0
               THEN Text(sign, "{sign}{hours:02d}:{mins:02d}", None,
                         two_digits(hours), two_digits(mins))
               ELSE Text(sign, "{sign}{mins:02d}m", None, no_digits, two_digits(mins))

\* The balances and daily requirements formatted: every balance up to
\* MaxFormatMinutes either way, and one daily requirement plus two hours, under
\* the requirements around one and two hours and those of the two hours inputs.
FormatQuotas ==
  {0, 1, 59, 60, 61, 119, 120, 121,
   calculate_time_required(WORKDAY, InitHours), calculate_time_required(WORKDAY, OddHours)}

FormatInputs ==
  {[minutes |-> b, daily_required_minutes |-> q] :
     b \in (0 - MaxFormatMinutes)..MaxFormatMinutes, q \in FormatQuotas}
  \cup
  {[minutes |-> b, daily_required_minutes |-> q] :
     <<b, q>> \in UNION {{<<q + 120, q>>, <<0 - (q + 120), q>>, <<q, q>>, <<2 * q + 61, q>>} :
                            q \in FormatQuotas}}

InitFormat ==
  /\ settings = init_default_settings
  /\ rows = EmptyLedger
  /\ today = 0
  /\ hbRun = NoRun
  /\ nreq = 0
  /\ calcIn = [category |-> WORKDAY, hours |-> InitHours]
  /\ calcOut = NotCalculated
  /\ pc = [p \in Requests |-> "idle"]
  /\ snap = [p \in Requests |-> NoSnapshot]
  /\ report = NotRendered
  /\ denied = 0
  /\ fmtIn \in FormatInputs
  /\ fmtOut = NotFormatted
  /\ bulk = NoBulk

Format ==
  /\ ~fmtOut.done
  /\ fmtOut' = [done |-> TRUE,
                text |-> format_balance_minutes(fmtIn.minutes, fmtIn.daily_required_minutes)]
  /\ UNCHANGED <<settings, rows, today, hbRun, nreq, calcIn, calcOut, pc, snap, report,
                 denied, fmtIn, bulk>>

NextFormat == Format

SpecFormat == InitFormat /\ [][NextFormat]_vars

\* ------------------------- POST /settings served in steps, with a heartbeat
\* The ledgers the form is submitted on: rows recorded by one heartbeat each,
\* of any device and date; Settings as constructed or with the working days
\* stored as JSON by an earlier settings request.
BulkLedgers ==
  UNION {[K -> {NewRow(WORKDAY, 1, calculate_time_required(WORKDAY, InitHours), NULL)}] :
           K \in SUBSET (Devices \X Dates)}

BulkSettings ==
  {init_default_settings, [init_default_settings EXCEPT !.working_days = json_dumps(MonFri)]}

InitBulk ==
  /\ settings \in BulkSettings
  /\ rows \in BulkLedgers
  /\ today \in Dates
  /\ hbRun = NoRun
  /\ nreq = 0
  /\ calcIn = [category |-> WORKDAY, hours |-> InitHours]
  /\ calcOut = NotCalculated
  /\ pc = [p \in Requests |-> "idle"]
  /\ snap = [p \in Requests |-> NoSnapshot]
  /\ report = NotRendered
  /\ denied = 0
  /\ fmtIn = NothingToFormat
  /\ fmtOut = NotFormatted
  /\ bulk = NoBulk

\* update_settings_form, lines 656-745, for a submission with both dates
\* valid that the Settings commit accepts: Settings are stored, the orphans
\* deleted, and records_to_add and records_to_update prepared from the rows read.
FormRead(start_date, end_date, working_days, daily_working_hours) ==
  LET effect == update_settings_form_effect(settings, rows, start_date, end_date,
                                            working_days, daily_working_hours)
      hours == form_hours(daily_working_hours)
      purged == PurgeOrphans(rows, effect.settings)
      after == settings_form_apply(rows, effect.settings, strptime(start_date),
                                   strptime(end_date), working_days, hours)
  IN /\ bulk.pc = "idle"
     /\ strptime(start_date) # None /\ strptime(end_date) # None
     /\ effect.status = 303
     /\ settings' = effect.settings
     /\ rows' = purged
     /\ bulk' = [pc |-> "read", status |-> 0, failed |-> FALSE, hours |-> hours,
                 to_add |-> DOMAIN after \ DOMAIN purged,
                 to_update |-> {k \in DOMAIN purged :
                                  k[2] \in strptime(start_date)..strptime(end_date)},
                 after |-> after]
     /\ UNCHANGED <<today, hbRun, nreq, calcIn, calcOut, pc, snap, report, denied,
                    fmtIn, fmtOut>>

\* Lines 748-757: bulk_insert_mappings, bulk_update_mappings (device_id and
\* time_required only) and the commit; an exception (a row to insert whose key
\* is stored by now, a row to update that is gone) leads to the rollback of
\* line 759.
FormBulk ==
  /\ bulk.pc = "read"
  /\ IF bulk.to_add \cap DOMAIN rows = {} /\ bulk.to_update \subseteq DOMAIN rows
     THEN /\ rows' = [k \in DOMAIN rows \cup bulk.to_add |->
                        IF k \in bulk.to_add THEN bulk.after[k]
                        ELSE IF k \in bulk.to_update
                             THEN [rows[k] EXCEPT !.time_required = bulk.after[k].time_required]
                             ELSE rows[k]]
          /\ bulk' = [bulk EXCEPT !.pc = "done", !.status = 303]
     ELSE /\ rows' = rows
          /\ bulk' = [bulk EXCEPT !.pc = "retry", !.failed = TRUE]
  /\ UNCHANGED <<settings, today, hbRun, nreq, calcIn, calcOut, pc, snap, report, denied,
                 fmtIn, fmtOut>>

\* Lines 761-776, one by one: each record to add is inserted and committed
\* unless its key is stored (rollback, message); then, for the first record to
\* update, db.merge of the dict raises, and the handler of that exception
\* raises AttributeError on record.date: the request ends with 500 and nothing
\* is updated.
FormRetry ==
  LET inserted == {k \in bulk.to_add : k \notin DOMAIN rows} IN
  /\ bulk.pc = "retry"
  /\ rows' = [k \in DOMAIN rows \cup inserted |->
                IF k \in inserted THEN bulk.after[k] ELSE rows[k]]
  /\ bulk' = [bulk EXCEPT !.pc = "done",
                          !.status = IF bulk.to_update = {} THEN 303 ELSE 500]
  /\ UNCHANGED <<settings, today, hbRun, nreq, calcIn, calcOut, pc, snap, report, denied,
                 fmtIn, fmtOut>>

NextBulk ==
  \/ \E s \in Dates, e \in Dates, w \in WorkingDaysInputs, h \in FormHoursInputs :
       FormRead(s, e, w, h)
  \/ FormBulk
  \/ FormRetry
  \/ \E device_id \in Devices : HeartbeatRead(1, device_id)
  \/ HeartbeatCommit(1)

SpecBulk == InitBulk /\ [][NextBulk]_vars

\* calculate_balance(recorded, required) of main.py
calculate_balance(recorded, required) == recorded - required

\* ----------------------------------------------------------------- claims
\* C1: N back-to-back heartbeats for one device and day, the first of which
\* created the row, leave that row with time_recorded = N, time_required = the
\* daily requirement of Settings and balance = N - requirement.
C1_HeartbeatsCount ==
  hbRun.n > 0 =>
    LET k == <<hbRun.dev, hbRun.date>>
        daily == PyInt(settings.daily_working_hours * 60, HoursScale)
    IN /\ k \in DOMAIN rows
       /\ rows[k].time_recorded = hbRun.n
       /\ rows[k].time_required = daily
       /\ calculate_balance(rows[k].time_recorded, rows[k].time_required) = hbRun.n - daily

\* Three heartbeats under the default 8 hours: 3 recorded, 480 required, -477.
C1_Witness ==
  /\ hbRun.n = 3
  /\ rows[<<hbRun.dev, hbRun.date>>].time_recorded = 3
  /\ rows[<<hbRun.dev, hbRun.date>>].time_required = 480
  /\ calculate_balance(rows[<<hbRun.dev, hbRun.date>>].time_recorded,
                       rows[<<hbRun.dev, hbRun.date>>].time_required) = 0 - 477

TypeOK ==
  /\ settings.start_date \in Dates /\ settings.end_date \in Dates
  /\ DOMAIN rows \subseteq Devices \X Dates
  /\ \A k \in DOMAIN rows : RowConstraints(rows[k])
  /\ today \in Dates

\* requiredMinutes(category, dailyRequiredMinutes) as the specification
\* tabulates it.
requiredMinutes(category, daily) ==
  CASE category = WORKDAY -> daily
    [] category = WEEKEND -> 0
    [] category = HALF_LEAVE -> daily \div 2
    [] category = FULL_LEAVE -> 0
    [] category = HOLIDAY -> 0
    [] OTHER -> daily

\* The daily requirement in minutes that Settings s holds.
DailyMinutes(s) == PyInt(s.daily_working_hours * 60, HoursScale)

\* Precedence of the specification: holiday > full-day leave > half-day leave
\* > workday > weekend.
Precedence(category) ==
  CASE category = HOLIDAY -> 4
    [] category = FULL_LEAVE -> 3
    [] category = HALF_LEAVE -> 2
    [] category = WORKDAY -> 1
    [] category = WEEKEND -> 0

\* The outcomes of the settings requests, over all their inputs, that were
\* accepted (200 from the API, the 303 redirect from the form) when served in
\* the current state.
AcceptedSettingsEffects ==
  {eff \in {api_update_settings_effect(settings, rows, s, e, w, h) :
              s \in DateInputs, e \in DateInputs, w \in WorkingDaysInputs,
              h \in HoursInputs} : eff.status = 200}
  \cup
  {eff \in {update_settings_form_effect(settings, rows, s, e, w, h) :
              s \in DateInputs, e \in DateInputs, w \in WorkingDaysInputs,
              h \in FormHoursInputs \cup HoursInputs} : eff.status = 303}

\* C3: a heartbeat for device dev changes the row <<dev, today>> only: its
\* time_recorded grows by 1 (from 0 when the row is new), an existing row keeps
\* category and time_required, every other row and Settings are unchanged.
C3_HeartbeatFrame ==
  [][\A dev \in Devices : record_heartbeat(dev) =>
       LET k == <<dev, today>> IN
       /\ settings' = settings
       /\ DOMAIN rows' = DOMAIN rows \cup {k}
       /\ \A j \in DOMAIN rows \ {k} : rows'[j] = rows[j]
       /\ rows'[k].time_recorded =
             (IF k \in DOMAIN rows THEN rows[k].time_recorded ELSE 0) + 1
       /\ k \in DOMAIN rows =>
             /\ rows'[k].category = rows[k].category
             /\ rows'[k].time_required = rows[k].time_required]_vars

\* The last request was a heartbeat on an existing holiday row, which is still
\* a holiday requiring 0 minutes and has recorded minutes; another row exists.
C3_Witness ==
  /\ hbRun.hit /\ hbRun.n = 0
  /\ <<hbRun.dev, hbRun.date>> \in DOMAIN rows
  /\ rows[<<hbRun.dev, hbRun.date>>].category = HOLIDAY
  /\ rows[<<hbRun.dev, hbRun.date>>].time_required = 0
  /\ rows[<<hbRun.dev, hbRun.date>>].time_recorded >= 1
  /\ DOMAIN rows # {<<hbRun.dev, hbRun.date>>}

\* C4: a heartbeat that finds no row <<dev, today>> creates it as a workday
\* requiring the daily minutes of Settings with 1 recorded minute, on any
\* weekday; a heartbeat that finds the row leaves its category alone.
C4_HeartbeatCreatesWorkday ==
  [][\A dev \in Devices : record_heartbeat(dev) =>
       LET k == <<dev, today>> IN
       IF k \notin DOMAIN rows
       THEN /\ k \in DOMAIN rows'
            /\ rows'[k].category = WORKDAY
            /\ rows'[k].time_required = DailyMinutes(settings)
            /\ rows'[k].time_recorded = 1
       ELSE rows'[k].category = rows[k].category]_vars

\* A heartbeat has just created a workday row on a date whose weekday is not a
\* working day.
C4_Witness ==
  /\ hbRun.hit /\ hbRun.n = 1
  /\ weekday(hbRun.date) \notin working_days_set(settings.working_days)
  /\ rows[<<hbRun.dev, hbRun.date>>].category = WORKDAY
  /\ rows[<<hbRun.dev, hbRun.date>>].time_recorded = 1
  /\ rows[<<hbRun.dev, hbRun.date>>].time_required = DailyMinutes(settings)

\* C5 (as claimed): no step deletes a ledger row or lowers its time_recorded,
\* and time_recorded is never negative.
C5_Claim ==
  [][\A k \in DOMAIN rows :
       /\ rows[k].time_recorded >= 0
       /\ k \in DOMAIN rows'
       /\ rows'[k].time_recorded >= rows[k].time_recorded]_vars

\* C6 (as claimed): after an accepted settings change every row dated in the
\* period of Settings requires requiredMinutes of its category and the new
\* daily requirement.
C6_Claim ==
  \A eff \in AcceptedSettingsEffects :
     \A k \in DOMAIN eff.rows :
        k[2] \in (eff.settings.start_date)..(eff.settings.end_date) =>
           eff.rows[k].time_required =
              requiredMinutes(eff.rows[k].category, DailyMinutes(eff.settings))

C9_Claim ==
  \A k \in DOMAIN rows :
     rows[k].category \in {WEEKEND, FULL_LEAVE, HOLIDAY} => rows[k].time_required = 0

\* C10 (as claimed): a holiday-range request of category c changes the stored
\* category of a row only to c and only when c has equal or higher precedence.
C10_Claim ==
  \A c \in TypeInputs, r \in Dates \X Dates, x \in DescriptionInputs :
     ~add_holiday_form_rejected(c, r[1], r[2], x) =>
        LET after == add_holiday_range(rows, settings, r[1], r[2], c, x) IN
        \A k \in DOMAIN rows \cap DOMAIN after :
           after[k].category # rows[k].category =>
              /\ after[k].category = c
              /\ Precedence(c) >= Precedence(rows[k].category)

\* C2 (as claimed): when every concurrent heartbeat request has completed
\* with success, each row's time_recorded equals the number of requests made
\* for its device and date (the ledger started empty): no increment is lost.
C2_Claim ==
  (\A p \in Requests : pc[p] = "done") =>
     \A device_id \in Devices :
        LET k == <<device_id, today>>
            served == {p \in Requests : snap[p].device_id = device_id}
        IN served # {} =>
              /\ k \in DOMAIN rows
              /\ rows[k].time_recorded = Cardinality(served)

\* C8: calculate_time_required(category, hours) with daily = int(hours * 60)
\* >= 0 is daily for workday, 0 for weekend, floor(daily / 2) for half-day
\* leave, 0 for full-day leave and holiday, daily for any other code.
C8_TimeRequiredTable ==
  calcOut.done =>
     LET daily == PyInt(calcIn.hours * 60, HoursScale)
         category == calcIn.category
         v == calcOut.value
     IN daily >= 0 =>
          CASE category = WORKDAY -> v = daily
            [] category = WEEKEND -> v = 0
            [] category = HALF_LEAVE -> 2 * v <= daily /\ daily < 2 * v + 2
            [] category = FULL_LEAVE -> v = 0
            [] category = HOLIDAY -> v = 0
            [] OTHER -> v = daily

\* The half of an odd daily requirement has been calculated and rounded down.
C8_Witness ==
  /\ calcOut.done
  /\ calcIn.category = HALF_LEAVE
  /\ PyInt(calcIn.hours * 60, HoursScale) % 2 = 1
  /\ 2 * calcOut.value + 1 = PyInt(calcIn.hours * 60, HoursScale)

\* The holiday-range requests the form passes on to add_holiday_range, as
\* <<category, start, end, description>>.
RangeRequests ==
  {q \in TypeInputs \X Dates \X Dates \X DescriptionInputs :
     ~add_holiday_form_rejected(q[1], q[2], q[3], q[4])}

\* The step is a DELETE /api/holidays/{date} or POST /holidays/{date}/delete.
DeleteHolidayStep ==
  \E d \in DateInputs : delete_holiday(d) \/ delete_holiday_form(d)

\* C11: in every reachable state, a holiday-range request of category
\* weekend, workday, half-day or full-day leave, over any range, keeps every
\* holiday row with its category and time_required; and a step after which a
\* holiday row is gone or no longer a holiday is a delete_holiday step.
C11_HolidayNeverDowngraded ==
  /\ [](\A q \in RangeRequests : q[1] # HOLIDAY =>
          LET after == add_holiday_range(rows, settings, q[2], q[3], q[1], q[4]) IN
          \A k \in DOMAIN rows : rows[k].category = HOLIDAY =>
             /\ k \in DOMAIN after
             /\ after[k].category = HOLIDAY
             /\ after[k].time_required = rows[k].time_required)
  /\ [][(\E k \in DOMAIN rows :
           /\ rows[k].category = HOLIDAY
           /\ (k \notin DOMAIN rows' \/ rows'[k].category # HOLIDAY))
        => DeleteHolidayStep]_vars

\* A holiday row is stored, and a weekend request over the whole period, served
\* now, writes other rows of the ledger while that row stays as it is.
C11_Witness ==
  \E k \in DOMAIN rows :
     /\ rows[k].category = HOLIDAY
     /\ LET after == add_holiday_range(rows, settings, 0, MaxDate, WEEKEND, "") IN
        /\ after # rows
        /\ after[k] = rows[k]

\* The dates a leave request must skip in the current state: the weekday is
\* not a working day of Settings, or a row of the date is stored as holiday.
DayAlreadyOff(d) ==
  \/ weekday(d) \notin working_days_set(settings.working_days)
  \/ \E k \in RowsOn(rows, d) : rows[k].category = HOLIDAY

C13_RangeIdempotent ==
  \A q \in RangeRequests :
     LET once == add_holiday_range(rows, settings, q[2], q[3], q[1], q[4])
         twice == add_holiday_range(once, settings, q[2], q[3], q[1], q[4])
     IN \A d \in q[2]..q[3] :
           /\ RowsOn(twice, d) = RowsOn(once, d)
           /\ \A k \in RowsOn(once, d) :
                 /\ twice[k].category = once[k].category
                 /\ twice[k].time_required = once[k].time_required

\* A workday row is stored; a half-day leave request over the whole period
\* turns it into half-day leave requiring half the daily minutes, and the same
\* request served again finds nothing to change.
C13_Witness ==
  \E k \in DOMAIN rows :
     /\ rows[k].category = WORKDAY
     /\ rows[k].time_required > 0
     /\ LET once == add_holiday_range(rows, settings, 0, MaxDate, HALF_LEAVE, "")
            twice == add_holiday_range(once, settings, 0, MaxDate, HALF_LEAVE, "")
        IN /\ k \in DOMAIN once
           /\ once[k].category = HALF_LEAVE
           /\ once[k].time_required = DailyMinutes(settings) \div 2
           /\ twice = once

\* classify(d, workingDays) with no override: workday when the weekday of d is
\* one of the working days the stored Settings name, else weekend.
classify(d) ==
  IF weekday(d) \in working_days_set(settings.working_days) THEN WORKDAY ELSE WEEKEND

\* C14 (as claimed): delete_holiday on a row stored as holiday or leave sets
\* its category to classify(d) under the stored working days and its
\* time_required to requiredMinutes of that category.
C14_Claim ==
  \A d \in Dates : \A k \in HolidayRowsOn(rows, d) :
     LET after == svc_delete_holiday(rows, settings, k) IN
     /\ delete_holiday_status(rows, d) = 200
     /\ after[k].category = classify(d)
     /\ after[k].time_required = requiredMinutes(classify(d), DailyMinutes(settings))

\* No row of date d is stored as holiday, full-day or half-day leave.
NoOverrideOn(d) ==
  \A k \in DOMAIN rows : k[2] = d => rows[k].category \notin {HOLIDAY, FULL_LEAVE, HALF_LEAVE}

\* C15: a DELETE /api/holidays/{d} for a well-formed date d on which no row is
\* holiday or leave is answered 404, and the step leaves every ledger row and
\* Settings unchanged.
C15_DeleteMiss ==
  [][\A d \in Dates : (delete_holiday(d) /\ NoOverrideOn(d)) =>
        /\ delete_holiday_status(rows, d) = 404
        /\ rows' = rows
        /\ settings' = settings]_vars

\* Requests have been served, a date holds a row with recorded minutes and no
\* holiday or leave, and the delete request for that date is a miss.
C15_Witness ==
  \E k \in DOMAIN rows :
     /\ nreq >= 2
     /\ rows[k].time_recorded >= 1
     /\ NoOverrideOn(k[2])
     /\ HolidayRowsOn(rows, k[2]) = {}
     /\ delete_holiday_status(rows, k[2]) = 404

\* sum(time_recorded) - sum(time_required) over a set of ledger rows, row by row.
RECURSIVE LedgerBalance(_)
LedgerBalance(keys) ==
  IF keys = {} THEN 0
  ELSE LET k == CHOOSE x \in keys : TRUE
       IN calculate_balance(rows[k].time_recorded, rows[k].time_required)
          + LedgerBalance(keys \ {k})

\* The dates the period balance is due for: start_date <= d <= min(end_date, today).
DueDates == {d \in ReportDates : settings.start_date <= d /\ d <= Min(settings.end_date, today)}

OnTheFlyRequired(d) ==
  IF weekday(d) \in working_days_set(settings.working_days)
  THEN DailyMinutes(settings) ELSE 0

RECURSIVE SumOnTheFly(_)
SumOnTheFly(days) ==
  IF days = {} THEN 0
  ELSE LET d == CHOOSE x \in days : TRUE
       IN OnTheFlyRequired(d) + SumOnTheFly(days \ {d})

RECURSIVE SumRows(_, _)
SumRows(keys, field) ==
  IF keys = {} THEN 0
  ELSE LET k == CHOOSE x \in keys : TRUE
       IN rows[k][field] + SumRows(keys \ {k}, field)

\* C17 (as claimed): for every month of the summaries that is not after the
\* current month, recorded is the sum of time_recorded over all ledger rows
\* dated in the month, required is the sum of their time_required plus the
\* on-the-fly requirement of every date of the month without a row, and
\* balance = recorded - required.
C17_Claim ==
  report.done =>
    \A m \in DOMAIN report.monthly_summaries : m <= first_of_month(today) =>
       LET days == m..last_of_month(m)
           in_month == {k \in DOMAIN rows : k[2] \in days}
           rowless == {d \in days : RowsOn(rows, d) = {}}
           summary == report.monthly_summaries[m]
       IN /\ summary.recorded = SumRows(in_month, "time_recorded")
          /\ summary.required = SumRows(in_month, "time_required") + SumOnTheFly(rowless)
          /\ summary.balance = summary.recorded - summary.required

\* C18 (as claimed): after an accepted settings change that alters the set of
\* working days, every row stored as workday or weekend is a workday exactly
\* when the weekday of its date is in the new set.
C18_Claim ==
  \A eff \in AcceptedSettingsEffects :
     working_days_set(eff.settings.working_days) # working_days_set(settings.working_days) =>
        \A k \in DOMAIN eff.rows : eff.rows[k].category \in {WORKDAY, WEEKEND} =>
           (eff.rows[k].category = WORKDAY
              <=> weekday(k[2]) \in working_days_set(eff.settings.working_days))

C20_Unauthorized ==
  [][\A token \in Tokens : (token # expected_token /\ ApiRequest(token)) =>
        /\ verify_token(token) = 401
        /\ denied' = denied + 1
        /\ settings' = settings
        /\ rows' = rows]_vars

\* Requests were denied after the ledger and Settings had been written by
\* authorized ones: a holiday row and changed Settings are still stored.
C20_Witness ==
  /\ denied >= 1
  /\ nreq = denied + 2
  /\ hbRun = NoRun
  /\ settings.daily_working_hours = OddHours
  /\ \E k \in DOMAIN rows : rows[k].category = HOLIDAY

\* C21 (as claimed): a malformed date never crashes a request: DELETE
\* /api/holidays/{date} answers 400, POST /holidays and POST
\* /holidays/{date}/delete do not reach the service, and POST /settings with a
\* malformed start or end date answers the 303 redirect; the ledger is as it was.
C21_Claim ==
  /\ delete_holiday_status(rows, None) = 400
  /\ \A c \in TypeInputs, x \in DescriptionInputs :
        /\ add_holiday_form_rejected(c, None, 0, x)
        /\ add_holiday_form_rejected(c, 0, None, x)
  /\ \A s \in DateInputs, e \in DateInputs, w \in WorkingDaysInputs, h \in FormHoursInputs :
        (s = None \/ e = None) =>
           LET eff == update_settings_form_effect(settings, rows, s, e, w, h) IN
           /\ eff.status = 303
           /\ eff.rows = rows

\* The days, hours and minutes a formatted balance shows: a value the text
\* does not print reads as zero, two digits as the number they write.
RenderedDays(text) == IF text.days = None THEN 0 ELSE text.days
RenderedHours(text) == IF text.hours = no_digits THEN 0 ELSE 10 * text.hours[1] + text.hours[2]
RenderedMinutes(text) == IF text.mins = no_digits THEN 0 ELSE 10 * text.mins[1] + text.mins[2]

\* The text "1d 02:00".
OneDayTwoHours ==
  Text("", "{sign}{days}d {hours:02d}:{mins:02d}", 1, two_digits(2), two_digits(0))

\* D*q + H*60 + M = |b| with 0 <= H*60 + M < q and 0 <= M < 60, and the minus
\* sign exactly when b < 0 (so none for b = 0).
Decomposes(text, b, q) ==
  LET D == RenderedDays(text)
      H == RenderedHours(text)
      M == RenderedMinutes(text)
  IN /\ D * q + H * 60 + M = (IF b < 0 THEN 0 - b ELSE b)
     /\ 0 <= H * 60 + M /\ H * 60 + M < q
     /\ 0 <= M /\ M < 60
     /\ D >= 0 /\ H >= 0
     /\ (text.sign = "-") <=> (b < 0)
     /\ text.sign \in {"", "-"}

\* C22 (as claimed): for every daily requirement q > 0 the formatted balance
\* decomposes |b| with q minutes as one day, signed exactly when b < 0, and
\* b = q + 120 reads "1d 02:00".
C22_Claim ==
  (fmtOut.done /\ fmtIn.daily_required_minutes > 0) =>
     /\ Decomposes(fmtOut.text, fmtIn.minutes, fmtIn.daily_required_minutes)
     /\ fmtIn.minutes = fmtIn.daily_required_minutes + 120 => fmtOut.text = OneDayTwoHours

\* C22 (amended): for every daily requirement q > 0 the formatted balance
\* decomposes |b| with q minutes as one day, signed exactly when b < 0 and
\* unsigned for b = 0; b = q + 120 reads "1d 02:00" when q > 120.
C22_FormatBalance ==
  (fmtOut.done /\ fmtIn.daily_required_minutes > 0) =>
     /\ Decomposes(fmtOut.text, fmtIn.minutes, fmtIn.daily_required_minutes)
     /\ fmtIn.minutes = 0 => fmtOut.text.sign = ""
     /\ (fmtIn.minutes = fmtIn.daily_required_minutes + 120
           /\ fmtIn.daily_required_minutes > 120) => fmtOut.text = OneDayTwoHours

\* A balance of one daily requirement of 8 hours plus two hours was formatted
\* and reads "1d 02:00".
C22_Witness ==
  /\ fmtOut.done
  /\ fmtIn.daily_required_minutes = 480
  /\ fmtIn.minutes = 480 + 120
  /\ fmtOut.text = OneDayTwoHours

\* C23 (as claimed): in every reachable state every ledger row requires
\* requiredMinutes of its category and the current daily requirement of
\* Settings, and never less than 0.
C23_Claim ==
  \A k \in DOMAIN rows :
     /\ rows[k].time_required = requiredMinutes(rows[k].category, DailyMinutes(settings))
     /\ rows[k].time_required >= 0

\* "existing.device_id = device_id": the key each row has after a write that
\* sets the device of the row it found for each of the given dates (first: the
\* row the query by date returned).
rewrite_device_id(rs, device_id, dates, first) ==
  [k \in DOMAIN rs |->
     IF k[2] \in dates /\ first[k[2]] = k THEN <<device_id, k[2]>> ELSE k]

\* UNIQUE (device_id, date): no two rows hold the same key.
unique_attendance_per_date(keys) ==
  \A a \in DOMAIN keys, b \in DOMAIN keys : keys[a] = keys[b] => a = b

\* C24: in every reachable state, heartbeats of other devices included, the
\* rows are one per (device_id, date), and a holiday or settings-form write
\* served now, which sets the device of the row it finds on each date it
\* writes to the Settings device after the purge, leaves them one per key, the
\* keys being those the ledger then holds.
C24_UniqueKey ==
  LET purged == PurgeOrphans(rows, settings) IN
  /\ Cardinality(DOMAIN rows) = Cardinality({<<k[1], k[2]>> : k \in DOMAIN rows})
  /\ \A dates \in SUBSET Dates : \A first \in FirstRecords(purged) :
        LET keys == rewrite_device_id(purged, settings.device_id, dates, first) IN
        /\ unique_attendance_per_date(keys)
        /\ {keys[k] : k \in DOMAIN keys} = DOMAIN purged
  /\ \A d \in Dates, x \in DescriptionInputs :
        \A first \in FirstRecords(purged) :
           {rewrite_device_id(purged, settings.device_id, {d}, first)[k] : k \in DOMAIN purged}
              \subseteq DOMAIN svc_add_holiday(rows, settings, d, x)
  /\ \A q \in RangeRequests : \A first \in FirstRecords(purged) :
        {rewrite_device_id(purged, settings.device_id, q[2]..q[3], first)[k] : k \in DOMAIN purged}
           \subseteq DOMAIN add_holiday_range(rows, settings, q[2], q[3], q[1], q[4])

\* A date holds a holiday row of the Settings device, written by a holiday
\* request, and a row of another device recorded by its heartbeat; a holiday
\* request for that date, served now, leaves one row on it.
C24_Witness ==
  \E d \in Dates :
     /\ <<settings.device_id, d>> \in DOMAIN rows
     /\ rows[<<settings.device_id, d>>].category = HOLIDAY
     /\ \E k \in RowsOn(rows, d) : k[1] # settings.device_id /\ rows[k].time_recorded >= 1
     /\ RowsOn(svc_add_holiday(rows, settings, d, "X"), d) = {<<settings.device_id, d>>}

\* C25 (as claimed): after a holiday write (add_holiday, add_holiday_range) or
\* an accepted settings write (POST /api/settings, POST /settings), served in
\* any reachable state, every ledger row has the device_id of Settings.
C25_Claim ==
  /\ \A d \in Dates, x \in DescriptionInputs :
        \A k \in DOMAIN svc_add_holiday(rows, settings, d, x) : k[1] = settings.device_id
  /\ \A q \in RangeRequests :
        \A k \in DOMAIN add_holiday_range(rows, settings, q[2], q[3], q[1], q[4]) :
           k[1] = settings.device_id
  /\ \A eff \in AcceptedSettingsEffects :
        \A k \in DOMAIN eff.rows : k[1] = eff.settings.device_id

\* C26 (as claimed): when the bulk insert/update of a settings apply has
\* failed and the request is over, the request answered the redirect, every
\* row to add whose key was free is stored, and every row to update has its
\* recomputed time_required.
C26_Claim ==
  (bulk.pc = "done" /\ bulk.failed) =>
     /\ bulk.status = 303
     /\ \A k \in bulk.to_add : k \in DOMAIN rows
     /\ \A k \in bulk.to_update :
           k \in DOMAIN rows => rows[k].time_required = bulk.after[k].time_required

\* C30 (as claimed): when a heartbeat request and a settings apply that
\* prepared a write of the heartbeat's (device, date) are both over, the row
\* is stored, its time_recorded is one more than the heartbeat read (1 when it
\* read no row), and its time_required is that of its category under the
\* hours before or after the change.
C30_Claim ==
  LET k == <<snap[1].device_id, snap[1].date>> IN
  (bulk.pc = "done" /\ pc[1] \in {"done", "failed"}
     /\ k \in bulk.to_add \cup bulk.to_update) =>
        /\ k \in DOMAIN rows
        /\ rows[k].time_recorded = snap[1].time_recorded + 1
        /\ rows[k].time_required \in
              {calculate_time_required(rows[k].category, InitHours),
               calculate_time_required(rows[k].category, bulk.hours)}

C28_Claim ==
  LET wd == settings.working_days IN
  /\ delete_holiday_working_days(wd) = working_days_set(wd)
  /\ initialize_attendance_records_working_days(wd) = working_days_set(wd)
  /\ \A d \in Dates :
        /\ (weekday(d) \in delete_holiday_working_days(wd)) <=> (weekday(d) \in working_days_set(wd))
        /\ (weekday(d) \in initialize_attendance_records_working_days(wd))
              <=> (weekday(d) \in working_days_set(wd))

\* The sum of the balances of the given months of the monthly summaries.
RECURSIVE SumMonthlyBalances(_, _)
SumMonthlyBalances(monthly_summaries, months) ==
  IF months = {} THEN 0
  ELSE LET m == CHOOSE x \in months : TRUE
       IN monthly_summaries[m].balance + SumMonthlyBalances(monthly_summaries, months \ {m})

\* C29 (as claimed): when the period of Settings consists of whole months and
\* ends before today, the dashboard balance equals the sum of the balances of
\* the monthly summaries of those months, in every ledger state.
C29_Claim ==
  (/\ report.done
   /\ settings.start_date = first_of_month(settings.start_date)
   /\ settings.end_date = last_of_month(settings.end_date)
   /\ settings.end_date < today) =>
     /\ DOMAIN report.monthly_summaries =
           {m \in ReportDates : /\ m = first_of_month(m)
                                /\ settings.start_date <= m /\ m <= settings.end_date}
     /\ report.balance =
           SumMonthlyBalances(report.monthly_summaries, DOMAIN report.monthly_summaries)

====
